---- MODULE Spec2Model ----
(***************************************************************************)
(* A model of the Pinyin Toolkit: pinyin/transformations.py (tone sandhi,  *)
(* erhua trimming, colorizing, audio readings), pinyin/meanings.py (the    *)
(* MeaningFormatter) and pinyin/config.py (the Config object).             *)
(*                                                                         *)
(* Python strings are sequences of one-character strings, so that          *)
(* concatenation, replacement and lower-casing are computed, not assumed.  *)
(* A leaf token is a record [kind, word, tone]; a Text leaf has tone 0.    *)
(* A Word is the sequence of its leaves; the value None and the empty      *)
(* string are both the empty sequence (both are false in Python).  A       *)
(* Chinese character is the string of its code point: "U+513F" and         *)
(* "U+5152" are the simplified and the traditional er, "U+74F6" is ping.   *)
(***************************************************************************)
EXTENDS Integers, Sequences, FiniteSets, TLC

VARIABLES tokens, mediapacks, tree, pc, result,
          settings, meanings,
          formatter, raw_definition,
          heap, usersettings, configs, calls

vars == <<tokens, mediapacks, tree, pc, result, settings, meanings,
          formatter, raw_definition, heap, usersettings, configs, calls>>

\* the arguments of Config.formatmeanings
formatvars == <<settings, meanings>>

\* a MeaningFormatter and the argument of its parsedefinition
meaningvars == <<formatter, raw_definition>>

\* the objects of the config module, the caller's usersettings, the Config
\* instances made so far and the number of calls made on them
configvars == <<heap, usersettings, configs, calls>>

(***************************************************************************)
(* Bounds of the model.                                                    *)
(***************************************************************************)
\* leaves in a token sequence handed to audioreading with several packs
MaxLeaves == 3
\* leaves in a token sequence handed to trimerhua or to one pack
MaxVisitLeaves == 2
\* media packs handed to PinyinAudioReadings
MaxPacks == 2
\* tokens in a TokenList handed to tonesandhi
MaxItems == 2
\* meanings handed to Config.formatmeanings
MaxMeanings == 21
\* clauses in a definition handed to parsedefinition
MaxClauses == 2
\* Config instances made from one usersettings
MaxConfigs == 2
\* attribute reads, attribute writes and in-place changes made on the instances
MaxCalls == 2

(***************************************************************************)
(* The token model (pinyin.py, not part of the sources at hand).           *)
(***************************************************************************)
Pinyin(word, tone) == [kind |-> "Pinyin", word |-> word, tone |-> tone]

TonedCharacter(character, tone) ==
    [kind |-> "TonedCharacter", word |-> <<character>>, tone |-> tone]

Text(text) == [kind |-> "Text", word |-> text, tone |-> 0]

\* str(tone) for a tone number
str(n) == <<"0", "1", "2", "3", "4", "5">>[n + 1]

\* Pinyin.iser and TonedCharacter.iser
iser(token) ==
    CASE token.kind = "Pinyin" -> token.word = <<"r">>
      [] token.kind = "TonedCharacter" -> token.word \in {<<"U+513F">>, <<"U+5152">>}
      [] OTHER -> FALSE

\* Pinyin.numericformat(hideneutraltone)
numericformat(pinyin, hideneutraltone) ==
    IF hideneutraltone /\ pinyin.tone = 5
    THEN pinyin.word
    ELSE pinyin.word \o <<str(pinyin.tone)>>

(***************************************************************************)
(* Python string helpers.                                                  *)
(***************************************************************************)
\* the characters of s from position i on
Drop(s, i) == SubSeq(s, i, Len(s))

\* u"u:" in word
ContainsUmlaut(word) ==
    \E i \in 1..(Len(word) - 1) : word[i] = "u" /\ word[i + 1] = ":"

\* word.replace(u"u:", u"v")
RECURSIVE ReplaceUmlaut(_)
ReplaceUmlaut(word) ==
    IF Len(word) = 0 THEN <<>>
    ELSE IF Len(word) >= 2 /\ word[1] = "u" /\ word[2] = ":"
         THEN <<"v">> \o ReplaceUmlaut(Drop(word, 3))
         ELSE <<word[1]>> \o ReplaceUmlaut(Drop(word, 2))

\* one character, lower-cased
lowerchar(c) ==
    CASE c = "D" -> "d" [] c = "E" -> "e" [] c = "L" -> "l" [] c = "U" -> "u"
      [] c = "N" -> "n" [] c = "I" -> "i" [] c = "H" -> "h" [] c = "A" -> "a"
      [] c = "O" -> "o" [] c = "M" -> "m" [] c = "P" -> "p" [] c = "G" -> "g"
      [] c = "V" -> "v" [] c = "R" -> "r" [] c = "Y" -> "y" [] c = "X" -> "x"
      [] OTHER -> c

\* s.lower()
lower(s) == [i \in 1..Len(s) |-> lowerchar(s[i])]

(***************************************************************************)
(* trimerhua and the TrimErhuaVisitor.                                     *)
(***************************************************************************)
\* TrimErhuaVisit with visitTonedCharacter keeping every character
TrimErhuaVisitKeepsCharacters(token) ==
    CASE token.kind = "Text" -> <<token>>
      [] token.kind = "Pinyin" -> IF iser(token) THEN <<>> ELSE <<token>>
      [] OTHER -> <<token>>

\* TrimErhuaVisitor.visitText / visitPinyin / visitTonedCharacter
TrimErhuaVisit(token) ==
    CASE token.kind = "Text" -> <<token>>
      [] token.kind = "Pinyin" -> IF iser(token) THEN <<>> ELSE <<token>>
      [] OTHER -> IF iser(token) THEN <<>> ELSE <<token>>

\* word.concatmap(TrimErhuaVisitor()): the visits of the leaves, concatenated
RECURSIVE ConcatMapTrim(_)
ConcatMapTrim(word) ==
    IF Len(word) = 0 THEN <<>>
    ELSE TrimErhuaVisit(Head(word)) \o ConcatMapTrim(Tail(word))

\* trimerhua(words)
trimerhua(words) == [i \in 1..Len(words) |-> ConcatMapTrim(words[i])]

(***************************************************************************)
(* Media packs (media.py, not part of the sources at hand): a pack is a    *)
(* name and the set of its file names.                                     *)
(***************************************************************************)
MediaPack(name, media) == [name |-> name, media |-> media]

\* the value None where a pack is expected
NoPack == [name |-> "None", media |-> {}]

\* MediaPack.mediafor(basename, audioextensions): the file of the first
\* extension for which the pack has a case-insensitively matching name
RECURSIVE mediafor(_, _, _)
mediafor(mediapack, basename, audioextensions) ==
    IF Len(audioextensions) = 0 THEN <<>>
    ELSE LET name == lower(basename \o Head(audioextensions))
             found == {f \in mediapack.media : lower(f) = name}
         IN IF found # {} THEN CHOOSE f \in found : TRUE
            ELSE mediafor(mediapack, basename, Tail(audioextensions))

(***************************************************************************)
(* PinyinAudioReadingsVisitor.                                             *)
(***************************************************************************)
\* possiblebases with the two neutral-tone fallbacks in the other order
possiblebasesFourthFirst(pinyin) ==
    <<numericformat(pinyin, FALSE)>> \o
    (IF pinyin.tone = 5
     THEN <<pinyin.word \o <<"4">>, pinyin.word>>
     ELSE IF ContainsUmlaut(pinyin.word)
          THEN <<ReplaceUmlaut(pinyin.word) \o <<str(pinyin.tone)>>>>
          ELSE <<>>)

\* the candidate base names of visitPinyin, in the order they are tried
possiblebases(pinyin) ==
    <<numericformat(pinyin, FALSE)>> \o
    (IF pinyin.tone = 5
     THEN <<pinyin.word, pinyin.word \o <<"4">>>>
     ELSE IF ContainsUmlaut(pinyin.word)
          THEN <<ReplaceUmlaut(pinyin.word) \o <<str(pinyin.tone)>>>>
          ELSE <<>>)

\* the loop of visitPinyin: media is the first true result, or the last result
RECURSIVE firstmedia(_, _, _)
firstmedia(mediapack, audioextensions, bases) ==
    LET media == mediafor(mediapack, Head(bases), audioextensions)
    IN IF media # <<>> \/ Len(bases) = 1 THEN media
       ELSE firstmedia(mediapack, audioextensions, Tail(bases))

\* the state of a new visitor
NewVisitor == [output |-> <<>>, mediamissingcount |-> 0]

\* visitPinyin on the visitor state v
visitPinyin(v, mediapack, audioextensions, pinyin) ==
    LET media == firstmedia(mediapack, audioextensions, possiblebases(pinyin))
    IN IF media # <<>>
       THEN [v EXCEPT !.output = Append(@, media)]
       ELSE [v EXCEPT !.mediamissingcount = @ + 1]

\* token.accept(visitor) for a leaf: visitText and visitTonedCharacter pass
AudioVisit(v, mediapack, audioextensions, token) ==
    IF token.kind = "Pinyin"
    THEN visitPinyin(v, mediapack, audioextensions, token)
    ELSE v

\* word.accept(visitor): every leaf of the word in order
RECURSIVE AudioVisitWord(_, _, _, _)
AudioVisitWord(v, mediapack, audioextensions, word) ==
    IF Len(word) = 0 THEN v
    ELSE AudioVisitWord(AudioVisit(v, mediapack, audioextensions, Head(word)),
                        mediapack, audioextensions, Tail(word))

RECURSIVE AudioVisitWords(_, _, _, _)
AudioVisitWords(v, mediapack, audioextensions, words) ==
    IF Len(words) = 0 THEN v
    ELSE AudioVisitWords(AudioVisitWord(v, mediapack, audioextensions, Head(words)),
                         mediapack, audioextensions, Tail(words))

\* audioreadingforpack that visits the words as given, erhua included
audioreadingforpackUntrimmed(mediapack, audioextensions, words) ==
    AudioVisitWords(NewVisitor, mediapack, audioextensions, words)

\* audioreadingforpack(mediapack, audioextensions, words)
audioreadingforpack(mediapack, audioextensions, words) ==
    AudioVisitWords(NewVisitor, mediapack, audioextensions, trimerhua(words))

(***************************************************************************)
(* PinyinAudioReadings.audioreading.                                       *)
(***************************************************************************)
\* InitialBest with the count starting at len(tokens)
InitialBestNoSlack(toks) == [outputs |-> <<>>, count |-> Len(toks)]

\* bestmediapacksoutputs, bestmediamissingcount before the first pack
InitialBest(toks) == [outputs |-> <<>>, count |-> Len(toks) + 1]

\* BestStep that keeps the output of the pack it replaces
BestStepKeepsOutput(best, mediapack, audioextensions, toks) ==
    LET r == audioreadingforpack(mediapack, audioextensions, trimerhua(toks))
        entry == [pack |-> mediapack, output |-> r.output]
    IN IF r.mediamissingcount = best.count
       THEN [best EXCEPT !.outputs = Append(@, entry)]
       ELSE IF r.mediamissingcount < best.count
            THEN [outputs |-> <<[pack |-> mediapack,
                                 output |-> IF Len(best.outputs) > 0
                                            THEN best.outputs[1].output
                                            ELSE r.output]>>,
                  count |-> r.mediamissingcount]
            ELSE best

\* one iteration of the loop over self.mediapacks
BestStep(best, mediapack, audioextensions, toks) ==
    LET r == audioreadingforpack(mediapack, audioextensions, trimerhua(toks))
        entry == [pack |-> mediapack, output |-> r.output]
    IN IF r.mediamissingcount = best.count
       THEN [best EXCEPT !.outputs = Append(@, entry)]
       ELSE IF r.mediamissingcount < best.count
            THEN [outputs |-> <<entry>>, count |-> r.mediamissingcount]
            ELSE best

RECURSIVE BestLoop(_, _, _, _)
BestLoop(best, packs, audioextensions, toks) ==
    IF Len(packs) = 0 THEN best
    ELSE BestLoop(BestStep(best, Head(packs), audioextensions, toks),
                  Tail(packs), audioextensions, toks)

\* Incomplete that tolerates one missing syllable
IncompleteOffByOne(bestmediamissingcount) == bestmediamissingcount > 1

\* the flag audioreading returns with a pack
Incomplete(bestmediamissingcount) == bestmediamissingcount # 0

\* every triple audioreading(tokens) can return; random.choice picks one
\* element of bestmediapacksoutputs
audioreading(packs, audioextensions, toks) ==
    LET best == BestLoop(InitialBest(toks), packs, audioextensions, toks)
    IN IF Len(best.outputs) # 0
       THEN {[pack |-> best.outputs[i].pack,
              output |-> best.outputs[i].output,
              incomplete |-> Incomplete(best.count)] : i \in 1..Len(best.outputs)}
       ELSE {[pack |-> NoPack, output |-> <<>>, incomplete |-> TRUE]}

(***************************************************************************)
(* colorize and the ColorizerVisitor.                                      *)
(***************************************************************************)
\* u'<span style="color:', u'">' and u'</span>'
SpanOpen == <<"<", "s", "p", "a", "n", " ", "s", "t", "y", "l", "e", "=", "\"", "c", "o", "l", "o", "r", ":">>

SpanOpenEnd == <<"\"", ">">>

SpanClose == <<"<", "/", "s", "p", "a", "n", ">">>

\* ColorizerVisitor.colorize with the index tone in place of tone - 1
ColorizerColorizeNextColor(colors, token) ==
    <<Text(SpanOpen \o colors[(token.tone % Len(colors)) + 1] \o SpanOpenEnd),
      token,
      Text(SpanClose)>>

\* ColorizerVisitor.colorize(token); colorlist[i] is colors[i + 1]
ColorizerColorize(colors, token) ==
    <<Text(SpanOpen \o colors[(token.tone - 1) + 1] \o SpanOpenEnd),
      token,
      Text(SpanClose)>>

\* ColorizerVisitor.visitText / visitPinyin / visitTonedCharacter
ColorizerVisit(colors, token) ==
    IF token.kind = "Text" THEN <<token>> ELSE ColorizerColorize(colors, token)

\* word.concatmap(ColorizerVisitor(colorlist))
RECURSIVE ConcatMapColor(_, _)
ConcatMapColor(colors, word) ==
    IF Len(word) = 0 THEN <<>>
    ELSE ColorizerVisit(colors, Head(word)) \o ConcatMapColor(colors, Tail(word))

\* colorize(colorlist, words)
colorize(colors, words) == [i \in 1..Len(words) |-> ConcatMapColor(colors, words[i])]

(***************************************************************************)
(* Token trees (pinyin.py and utils.py, not part of the sources at hand):  *)
(* a Word wraps one token, a TokenList holds a sequence of tokens.         *)
(***************************************************************************)
Word(token) == [kind |-> "Word", token |-> token]

TokenList(toks) == [kind |-> "TokenList", tokens |-> toks]

\* the exception tonesandhi ends with in place of a value
TypeError == [kind |-> "TypeError"]

IsToned(token) == token.kind \in {"Pinyin", "TonedCharacter"}

\* Pinyin(text): the last character is the tone digit, the rest the spelling
ParsePinyin(text) ==
    LET last == text[Len(text)]
        digits == {n \in 1..5 : str(n) = last}
    IN IF digits # {}
       THEN Pinyin(SubSeq(text, 1, Len(text) - 1), CHOOSE n \in digits : TRUE)
       ELSE Pinyin(text, 5)

\* unicode(token) for a leaf
LeafText(token) ==
    IF token.kind = "Pinyin" THEN numericformat(token, TRUE) ELSE token.word

\* flatten(token): the texts of the leaves, concatenated
RECURSIVE flatten(_)
RECURSIVE flattenall(_)
flatten(token) ==
    CASE token.kind = "Word" -> flatten(token.token)
      [] token.kind = "TokenList" -> flattenall(token.tokens)
      [] OTHER -> LeafText(token)

flattenall(toks) ==
    IF Len(toks) = 0 THEN <<>> ELSE flatten(Head(toks)) \o flattenall(Tail(toks))

(***************************************************************************)
(* tonesandhi and the ToneSandhiVisitor.                                   *)
(***************************************************************************)
\* the rebuild functions visitPinyin and visitTonedCharacter hand to visitToned
rebuild(toned, tone) ==
    IF toned.kind = "Pinyin"
    THEN ParsePinyin(toned.word \o <<str(tone)>>)
    ELSE TonedCharacter(LeafText(toned)[1], tone)

\* the function do of visitToned
visitToned_do(toned, monobefore, ismono, islastinword, monoafter) ==
    IF toned.tone # 3 THEN toned
    ELSE LET shouldusethirdtone ==
                 \/ ismono /\ monoafter
                 \/ ~ismono /\ ~islastinword /\ monobefore
                 \/ ~ismono /\ monoafter
                 \/ ~ismono /\ ~islastinword /\ ~monoafter
         IN IF shouldusethirdtone THEN rebuild(toned, 2) ELSE toned

\* token.accept(ToneSandhiVisitor()): visitToned returns the pair (True, do);
\* visitText, visitWord and visitTokenList return a function alone
SandhiAccept(token) ==
    IF IsToned(token)
    THEN [shape |-> "pair", ismono |-> TRUE, of |-> token]
    ELSE [shape |-> "function", of |-> token]

\* tonesandhi(token): unpacking anything but a pair raises TypeError
tonesandhi(token) ==
    LET visited == SandhiAccept(token)
    IN IF visited.shape = "pair"
       THEN visitToned_do(visited.of, FALSE, visited.ismono, TRUE, FALSE)
       ELSE TypeError

(***************************************************************************)
(* Config.formatmeanings (config.py).  A numbering symbol is the string of *)
(* its one character, written as the code point.                           *)
(***************************************************************************)
\* str(n) for a natural number of any size
RECURSIVE decimal(_)
decimal(n) ==
    IF n < 10
    THEN <<(<<"0", "1", "2", "3", "4", "5", "6", "7", "8", "9">>)[n + 1]>>
    ELSE decimal(n \div 10) \o decimal(n % 10)

\* separator.join(strings)
RECURSIVE join(_, _)
join(separator, strings) ==
    IF Len(strings) = 0 THEN <<>>
    ELSE IF Len(strings) = 1 THEN strings[1]
    ELSE strings[1] \o separator \o join(separator, Tail(strings))

\* meaningnumberingstringss: the value None is the record with isnone
meaningnumberingstringss(scheme) ==
    CASE scheme = "circledChinese" ->
             [isnone |-> FALSE, strings |-> <<<<"U+3280">>, <<"U+3281">>, <<"U+3282">>, <<"U+3283">>, <<"U+3284">>,
                  <<"U+3285">>, <<"U+3286">>, <<"U+3287">>, <<"U+3288">>, <<"U+3289">>,
                  <<"U+246A">>, <<"U+246B">>, <<"U+246C">>, <<"U+246D">>, <<"U+246E">>,
                  <<"U+246F">>, <<"U+2470">>, <<"U+2471">>, <<"U+2472">>, <<"U+2473">>>>]
      [] scheme = "circledArabic" ->
             [isnone |-> FALSE, strings |-> <<<<"U+2460">>, <<"U+2461">>, <<"U+2462">>, <<"U+2463">>, <<"U+2464">>,
                  <<"U+2465">>, <<"U+2466">>, <<"U+2467">>, <<"U+2468">>, <<"U+2469">>,
                  <<"U+246A">>, <<"U+246B">>, <<"U+246C">>, <<"U+246D">>, <<"U+246E">>,
                  <<"U+246F">>, <<"U+2470">>, <<"U+2471">>, <<"U+2472">>, <<"U+2473">>>>]
      [] scheme = "arabicParens" -> [isnone |-> FALSE, strings |-> <<>>]
      [] scheme = "none" -> [isnone |-> TRUE, strings |-> <<>>]

\* meaningseperatorstrings.get(name): nothing for a name that is no key
meaningseperatorstrings(name) ==
    CASE name = "lines" -> <<"<", "b", "r", " ", "/", ">">>
      [] name = "commas" -> <<",", " ">>
      [] OTHER -> <<>>

\* Config.meaningnumberingstrings
meaningnumberingstrings(s) == meaningnumberingstringss(s.meaningnumbering)

\* Config.meaningseperatorstring: get(...) or self.custommeaningseperator
meaningseperatorstring(s) ==
    IF meaningseperatorstrings(s.meaningseperator) # <<>>
    THEN meaningseperatorstrings(s.meaningseperator)
    ELSE s.custommeaningseperator

\* meaningnumber that leaves the list one symbol early
meaningnumberOneEarly(s, n) ==
    IF n < Len(meaningnumberingstrings(s).strings) - 1
    THEN meaningnumberingstrings(s).strings[n + 1]
    ELSE <<"(">> \o decimal(n + 1) \o <<")">>

\* meaningnumber(n) of formatmeanings; n counts from 0
meaningnumber(s, n) ==
    IF n < Len(meaningnumberingstrings(s).strings)
    THEN meaningnumberingstrings(s).strings[n + 1]
    ELSE <<"(">> \o decimal(n + 1) \o <<")">>

\* Config.formatmeanings(meanings)
formatmeanings(s, ms) ==
    LET numbered ==
            IF Len(ms) > 1 /\ ~meaningnumberingstrings(s).isnone
            THEN [i \in 1..Len(ms) |-> meaningnumber(s, i - 1) \o <<" ">> \o ms[i]]
            ELSE ms
    IN join(meaningseperatorstring(s), numbered)

(***************************************************************************)
(* MeaningFormatter (meanings.py).  A string in a token list is the Text   *)
(* token of that string.                                                   *)
(***************************************************************************)
Whitespace == {" "}

\* s.lstrip(chars): chars is a set of characters, not a prefix
RECURSIVE lstrip(_, _)
lstrip(s, chars) ==
    IF Len(s) > 0 /\ s[1] \in chars THEN lstrip(Tail(s), chars) ELSE s

\* s.rstrip(chars)
RECURSIVE rstrip(_, _)
rstrip(s, chars) ==
    IF Len(s) > 0 /\ s[Len(s)] \in chars
    THEN rstrip(SubSeq(s, 1, Len(s) - 1), chars)
    ELSE s

\* s.strip()
strip(s) == rstrip(lstrip(s, Whitespace), Whitespace)

\* s.startswith(prefix)
startswith(s, prefix) ==
    Len(s) >= Len(prefix) /\ SubSeq(s, 1, Len(prefix)) = prefix

\* s.split(c) for a separator of one character
RECURSIVE split(_, _)
split(s, c) ==
    IF \A i \in 1..Len(s) : s[i] # c THEN <<s>>
    ELSE LET i == CHOOSE i \in 1..Len(s) :
                      s[i] = c /\ \A j \in 1..(i - 1) : s[j] # c
         IN <<SubSeq(s, 1, i - 1)>> \o split(Drop(s, i + 1), c)

\* s.replace(old, new)
RECURSIVE replace(_, _, _)
replace(s, old, new) ==
    IF Len(s) = 0 THEN <<>>
    ELSE IF startswith(s, old) THEN new \o replace(Drop(s, Len(old) + 1), old, new)
    ELSE <<s[1]>> \o replace(Tail(s), old, new)

\* a group of a match that took no part in it, and one that matched string
NoGroup == [isnone |-> TRUE, string |-> <<>>]

Group(string) == [isnone |-> FALSE, string |-> string]

\* the characters the class [^\|\[\s] leaves out
RunStops == {"|", "["} \cup Whitespace

\* the first position from i on that holds one of stops, Len(s) + 1 if none
RECURSIVE scan(_, _, _)
scan(s, i, stops) ==
    IF i <= Len(s) /\ s[i] \notin stops THEN scan(s, i + 1, stops) ELSE i

\* the first position from i on that holds no whitespace
RECURSIVE skipspace(_, _)
skipspace(s, i) ==
    IF i <= Len(s) /\ s[i] \in Whitespace THEN skipspace(s, i + 1) ELSE i

\* (?:\s*\[([^\]]*)\])? tried at position j: where it ends, and group 4
bracket(s, j) ==
    LET k == skipspace(s, j)
        e == scan(s, k + 1, {"]"})
    IN IF k <= Len(s) /\ s[k] = "[" /\ e <= Len(s)
       THEN [end |-> e + 1, group |-> Group(SubSeq(s, k + 1, e - 1))]
       ELSE [end |-> j, group |-> NoGroup]

\* embeddedchineseregex matched at position i; end is the position after it
embeddedchineseregex(s, i) ==
    LET e1 == scan(s, i, RunStops)
        e2 == scan(s, e1 + 1, RunStops)
    IN IF e1 <= Len(s) /\ s[e1] = "|"
       THEN [start |-> i, end |-> bracket(s, e2).end,
             groups |-> <<Group(SubSeq(s, i, e1 - 1)),
                          Group(SubSeq(s, e1 + 1, e2 - 1)),
                          NoGroup,
                          bracket(s, e2).group>>]
       ELSE [start |-> i, end |-> bracket(s, e1).end,
             groups |-> <<NoGroup, NoGroup,
                          Group(SubSeq(s, i, e1 - 1)),
                          bracket(s, e1).group>>]

\* utils.regexparse from search position pos on, the text before i consumed:
\* the matches in order, each span between two matches as a string
RECURSIVE regexparsefrom(_, _, _)
regexparsefrom(s, pos, i) ==
    IF pos > Len(s) + 1
    THEN IF i <= Len(s) THEN <<[ismatch |-> FALSE, thing |-> Drop(s, i)]>> ELSE <<>>
    ELSE LET match == embeddedchineseregex(s, pos)
         IN (IF match.start > i
             THEN <<[ismatch |-> FALSE, thing |-> SubSeq(s, i, match.start - 1)]>>
             ELSE <<>>)
            \o <<[ismatch |-> TRUE, thing |-> match]>>
            \o regexparsefrom(s, IF match.end = match.start THEN pos + 1 ELSE match.end,
                              match.end)

\* utils.regexparse(self.embeddedchineseregex, text)
regexparse(s) == regexparsefrom(s, 1, 1)

\* the matches regexparse finds in s
matches(s) ==
    {regexparse(s)[k].thing : k \in {j \in 1..Len(regexparse(s)) : regexparse(s)[j].ismatch}}

\* formatmatch that takes the simplified slot whatever the preference
formatmatchSimplifiedOnly(f, match) ==
    LET character ==
            IF ~match.groups[3].isnone THEN match.groups[3].string
            ELSE match.groups[1 + f.simplifiedcharindex].string
    IN IF ~match.groups[4].isnone
       THEN <<Text(character), Text(<<" ", "-", " ">>), ParsePinyin(match.groups[4].string)>>
       ELSE <<Text(character)>>

\* MeaningFormatter.formatmatch(match): the tokens it yields
formatmatch(f, match) ==
    LET character ==
            IF ~match.groups[3].isnone THEN match.groups[3].string
            ELSE IF f.prefersimptrad = "simp"
            THEN match.groups[1 + f.simplifiedcharindex].string
            ELSE match.groups[1 + (1 - f.simplifiedcharindex)].string
    IN IF ~match.groups[4].isnone
       THEN <<Text(character), Text(<<" ", "-", " ">>), ParsePinyin(match.groups[4].string)>>
       ELSE <<Text(character)>>

\* the tokens of the things regexparse returned
RECURSIVE thingtokens(_, _)
thingtokens(f, things) ==
    IF Len(things) = 0 THEN <<>>
    ELSE (IF Head(things).ismatch
          THEN formatmatch(f, Head(things).thing)
          ELSE <<Text(Head(things).thing)>>)
         \o thingtokens(f, Tail(things))

\* definition.strip().replace("CL:", "MW:")
normalize(clause) == replace(strip(clause), <<"C", "L", ":">>, <<"M", "W", ":">>)

\* ismeasureword that looks for the marker anywhere in the clause
ismeasurewordAnywhere(definition) ==
    \E i \in 1..Len(definition) : startswith(Drop(definition, i), <<"M", "W", ":">>)

\* definition.startswith("MW:")
ismeasureword(definition) == startswith(definition, <<"M", "W", ":">>)

\* ", ".join(definition.lstrip("MW:").strip().split(","))
measureworddefinition(definition) ==
    join(<<",", " ">>, split(strip(lstrip(definition, {"M", "W", ":"})), ","))

\* the TokenList of one normalized clause
clausetokens(f, definition) ==
    thingtokens(f, regexparse(IF ismeasureword(definition)
                              THEN measureworddefinition(definition)
                              ELSE definition))

\* the loop of parsedefinition over the clauses still to come
RECURSIVE parseclauses(_, _, _, _)
parseclauses(f, clauses, means, mws) ==
    IF Len(clauses) = 0 THEN [meanings |-> means, measurewords |-> mws]
    ELSE IF ismeasureword(normalize(Head(clauses)))
    THEN parseclauses(f, Tail(clauses), means,
                      Append(mws, clausetokens(f, normalize(Head(clauses)))))
    ELSE parseclauses(f, Tail(clauses),
                      Append(means, clausetokens(f, normalize(Head(clauses)))), mws)

\* raw_definition.strip().lstrip("/").rstrip("/").split("/")
clausesof(raw) == split(rstrip(lstrip(strip(raw), {"/"}), {"/"}), "/")

\* MeaningFormatter.parsedefinition(raw_definition)
parsedefinition(f, raw) == parseclauses(f, clausesof(raw), <<>>, <<>>)

(***************************************************************************)
(* Config (config.py).  The mutable objects, dictionaries and lists, live  *)
(* in a heap: a sequence of objects, the address of an object being its    *)
(* position.  A value is a string, a boolean, None, a bound method or the  *)
(* reference to an object.                                                 *)
(***************************************************************************)
Atom(string) == [kind |-> "atom", atom |-> string, addr |-> 0]

Bool(b) == [kind |-> "bool", atom |-> <<>>, addr |-> IF b THEN 1 ELSE 0]

Ref(address) == [kind |-> "ref", atom |-> <<>>, addr |-> address]

Method(name) == [kind |-> "method", atom |-> <<name>>, addr |-> 0]

NoneValue == [kind |-> "None", atom |-> <<>>, addr |-> 0]

Dict(items) == [kind |-> "dict", items |-> items]

List(items) == [kind |-> "list", items |-> items]

\* the module-level defaultsettings is the first object of the heap
defaultsettings == Ref(1)

\* tonedisplayshouldtonify
tonedisplayshouldtonify(tonedisplay) ==
    CASE tonedisplay = Atom(<<"n", "u", "m", "e", "r", "i", "c">>) -> [raised |-> "", value |-> Bool(FALSE)]
      [] tonedisplay = Atom(<<"t", "o", "n", "i", "f", "i", "e", "d">>) -> [raised |-> "", value |-> Bool(TRUE)]
      [] OTHER -> [raised |-> "KeyError", value |-> NoneValue]

\* the names tone1color .. tone5color, the n of tonecolorproperty(n) plus one
ToneNames == <<"tone1color", "tone2color", "tone3color", "tone4color", "tone5color">>

ToneIndex(name) == (CHOOSE k \in 1..Len(ToneNames) : ToneNames[k] = name) - 1

IsToneName(name) == \E k \in 1..Len(ToneNames) : ToneNames[k] = name

\* the properties of the class without a setter
ReadOnlyProperties == {"shouldtonify"}

\* the attributes of the class that are no properties
MethodNames == {"formatmeanings"}

\* copy.deepcopy that hands back the value itself
deepcopyShared(h, v) == [heap |-> h, value |-> v]

\* copy.deepcopy(value): the heap with the copies in it, and the new value
RECURSIVE deepcopy(_, _)
RECURSIVE deepcopyitems(_, _, _)
deepcopy(h, v) ==
    IF v.kind # "ref" THEN [heap |-> h, value |-> v]
    ELSE LET c == deepcopyitems(h, h[v.addr].items, <<>>)
         IN [heap |-> Append(c.heap, List(c.items)), value |-> Ref(Len(c.heap) + 1)]

deepcopyitems(h, items, copied) ==
    IF Len(items) = 0 THEN [heap |-> h, items |-> copied]
    ELSE LET c == deepcopy(h, Head(items))
         IN deepcopyitems(c.heap, Tail(items), Append(copied, c.value))

\* the loop of __init__ over the items of one dictionary still to copy
RECURSIVE copyitems(_, _, _, _)
copyitems(h, source, keys, copied) ==
    IF keys = {} THEN [heap |-> h, settings |-> copied]
    ELSE LET key == CHOOSE k \in keys : TRUE
             c == deepcopy(h, source[key])
         IN copyitems(c.heap, source, keys \ {key}, (key :> c.value) @@ copied)

\* usersettings or {}
itemsor(h, us) == IF us.kind = "None" THEN <<>> ELSE h[us.addr].items

\* Config.__init__(usersettings): the heap with the new settings dictionary
\* in it, and the reference self.settings holds
init(h, us) ==
    LET d == copyitems(h, h[defaultsettings.addr].items,
                       DOMAIN h[defaultsettings.addr].items, <<>>)
        u == copyitems(d.heap, itemsor(h, us), DOMAIN itemsor(h, us), d.settings)
    IN [heap |-> Append(u.heap, Dict(u.settings)), self |-> Ref(Len(u.heap) + 1)]

\* Config.__getattr__(name) for a name the class does not have
getattr(h, self, name) ==
    IF name \in DOMAIN h[self.addr].items
    THEN [raised |-> "", value |-> h[self.addr].items[name]]
    ELSE [raised |-> "AttributeError", value |-> NoneValue]

\* container[n]
getitem(h, container, n) ==
    CASE container.kind = "atom" /\ n < Len(container.atom) ->
             [raised |-> "", value |-> Atom(<<container.atom[n + 1]>>)]
      [] container.kind = "ref" /\ n < Len(h[container.addr].items) ->
             [raised |-> "", value |-> h[container.addr].items[n + 1]]
      [] container.kind \in {"atom", "ref"} -> [raised |-> "IndexError", value |-> NoneValue]
      [] OTHER -> [raised |-> "TypeError", value |-> NoneValue]

\* reading config.name: the properties and methods of the class, the
\* settings of the instance, then __getattr__
readattribute(h, self, name) ==
    CASE IsToneName(name) ->
             IF getattr(h, self, "tonecolors").raised # ""
             THEN getattr(h, self, "tonecolors")
             ELSE getitem(h, getattr(h, self, "tonecolors").value, ToneIndex(name))
      [] name = "shouldtonify" ->
             IF getattr(h, self, "tonedisplay").raised # ""
             THEN getattr(h, self, "tonedisplay")
             ELSE tonedisplayshouldtonify(getattr(h, self, "tonedisplay").value)
      [] name = "settings" -> [raised |-> "", value |-> self]
      [] name \in MethodNames -> [raised |-> "", value |-> Method(name)]
      [] OTHER -> getattr(h, self, name)

\* the setter of tonecolorproperty(n): self.tonecolors[n] = value
setter(h, self, n, value) ==
    LET tonecolors == getattr(h, self, "tonecolors")
    IN CASE tonecolors.raised # "" -> [raised |-> tonecolors.raised, heap |-> h]
         [] tonecolors.value.kind # "ref" -> [raised |-> "TypeError", heap |-> h]
         [] n >= Len(h[tonecolors.value.addr].items) -> [raised |-> "IndexError", heap |-> h]
         [] OTHER ->
                [raised |-> "",
                 heap |-> [h EXCEPT ![tonecolors.value.addr].items[n + 1] = value]]

\* Config.__setattr__(name, value) on instance c: the exception raised if
\* any, the heap and the instances afterwards
setattr(h, cfgs, c, name, value) ==
    CASE name = "settings" ->
             [raised |-> "", heap |-> h, configs |-> [cfgs EXCEPT ![c] = value]]
      [] IsToneName(name) ->
             [raised |-> setter(h, cfgs[c], ToneIndex(name), value).raised,
              heap |-> setter(h, cfgs[c], ToneIndex(name), value).heap,
              configs |-> cfgs]
      [] name \in ReadOnlyProperties ->
             [raised |-> "AttributeError", heap |-> h, configs |-> cfgs]
      [] OTHER ->
             [raised |-> "",
              heap |-> [h EXCEPT ![cfgs[c].addr].items = (name :> value) @@ @],
              configs |-> cfgs]

\* the addresses of the objects a value leads to
RECURSIVE Reachable(_, _)
Reachable(h, v) ==
    IF v.kind # "ref" THEN {}
    ELSE {v.addr} \cup UNION {Reachable(h, h[v.addr].items[k]) : k \in DOMAIN h[v.addr].items}

(***************************************************************************)
(* Inputs.                                                                 *)
(***************************************************************************)
\* the extension list the tests construct PinyinAudioReadings with
audioextensions == << <<".", "m", "p", "3">>, <<".", "o", "g", "g">> >>

\* every list of non-empty words over the leaves with at most n leaves in all
RECURSIVE WordLists(_, _)
WordLists(leaves, n) ==
    {<<>>} \cup
    UNION {{<<w>> \o rest : w \in [1..k -> leaves], rest \in WordLists(leaves, n - k)}
           : k \in 1..n}

ni3 == Pinyin(<<"n", "i">>, 3)
hao3 == Pinyin(<<"h", "a", "o">>, 3)
r5 == Pinyin(<<"r">>, 5)
de5 == Pinyin(<<"d", "e">>, 5)
lu3 == Pinyin(<<"l", "u", ":">>, 3)
lu5 == Pinyin(<<"l", "u", ":">>, 5)
junk == Text(<<"x">>)

SelectLeaves == {ni3, hao3, r5}
VisitLeaves == {de5, lu3, lu5, junk}
ErhuaLeaves == {Pinyin(<<"y", "i">>, 1), r5, Pinyin(<<"r">>, 2),
                TonedCharacter("U+513F", 5), TonedCharacter("U+5152", 5),
                TonedCharacter("U+74F6", 2), junk}

mp3(base) == base \o <<".", "m", "p", "3">>

SelectFiles == {mp3(<<"n", "i", "3">>), mp3(<<"h", "a", "o", "3">>)}
VisitFiles == {mp3(<<"d", "e", "5">>), mp3(<<"d", "e">>), mp3(<<"d", "e", "4">>),
               mp3(<<"l", "u", ":", "3">>), mp3(<<"l", "v", "3">>),
               mp3(<<"l", "u", "3">>), mp3(<<"l", "v", "5">>)}

PackNames == <<"Foo", "Bar", "Baz", "Qux">>

\* every list of at most n packs over the files, named by position
PackLists(files, n) ==
    UNION {[1..k -> SUBSET files] : k \in 0..n}

NamePacks(contents) ==
    [i \in 1..Len(contents) |-> MediaPack(PackNames[i], contents[i])]

NoTree == [kind |-> "None"]

\* no Config and no meanings at hand
NoFormatArguments == settings = <<>> /\ meanings = <<>>

\* no MeaningFormatter and no definition at hand
NoMeaningArguments == formatter = <<>> /\ raw_definition = <<>>

\* no Config instance and no objects at hand
NoConfigObjects == heap = <<>> /\ usersettings = <<>> /\ configs = <<>> /\ calls = 0

\* the color list of the tests
colorlist == <<<<"#", "f", "f", "0", "0", "0", "0">>,
               <<"#", "f", "f", "a", "a", "0", "0">>,
               <<"#", "0", "0", "a", "a", "0", "0">>,
               <<"#", "0", "0", "0", "0", "f", "f">>,
               <<"#", "5", "4", "5", "4", "5", "4">>>>

ColorLeaves == {Pinyin(<<"m", "a">>, t) : t \in 1..5}
               \cup {r5, TonedCharacter("U+513F", 5), TonedCharacter("U+99AC", 3), junk}

\* several packs, few syllables
InitSelect ==
    /\ tokens \in WordLists(SelectLeaves, MaxLeaves)
    /\ \E c \in PackLists(SelectFiles, MaxPacks) : mediapacks = NamePacks(c)

\* one pack, the syllables with fallback spellings
InitVisit ==
    /\ tokens \in WordLists(VisitLeaves, MaxVisitLeaves)
    /\ \E m \in SUBSET VisitFiles : mediapacks = <<MediaPack("Test", m)>>

\* no pack, the leaves trimerhua tells apart
InitErhua ==
    /\ tokens \in WordLists(ErhuaLeaves, MaxVisitLeaves)
    /\ mediapacks = <<>>

\* no pack, leaves of every tone
InitColor ==
    /\ tokens \in WordLists(ColorLeaves, MaxVisitLeaves)
    /\ mediapacks = <<>>

Init ==
    /\ InitSelect \/ InitVisit \/ InitErhua \/ InitColor
    /\ tree = NoTree
    /\ NoFormatArguments
    /\ NoMeaningArguments
    /\ NoConfigObjects
    /\ pc = "start"
    /\ result = <<>>

(***************************************************************************)
(* Operations.                                                             *)
(***************************************************************************)
\* PinyinAudioReadings(mediapacks, audioextensions).audioreading(tokens)
AudioReading ==
    /\ pc = "start"
    /\ \E r \in audioreading(mediapacks, audioextensions, tokens) : result' = r
    /\ pc' = "audioreading"
    /\ UNCHANGED <<tokens, mediapacks, tree, formatvars, meaningvars, configvars>>

\* audioreadingforpack(mediapack, audioextensions, tokens) with each pack
AudioReadingForPack ==
    /\ pc = "start"
    /\ Len(mediapacks) > 0
    /\ result' = [i \in 1..Len(mediapacks) |->
                    audioreadingforpack(mediapacks[i], audioextensions, tokens)]
    /\ pc' = "audioreadingforpack"
    /\ UNCHANGED <<tokens, mediapacks, tree, formatvars, meaningvars, configvars>>

\* trimerhua(tokens)
TrimErhua ==
    /\ pc = "start"
    /\ result' = trimerhua(tokens)
    /\ pc' = "trimerhua"
    /\ UNCHANGED <<tokens, mediapacks, tree, formatvars, meaningvars, configvars>>

\* colorize(colorlist, tokens)
Colorize ==
    /\ pc = "start"
    /\ result' = colorize(colorlist, tokens)
    /\ pc' = "colorize"
    /\ UNCHANGED <<tokens, mediapacks, tree, formatvars, meaningvars, configvars>>

Next == AudioReading \/ AudioReadingForPack \/ TrimErhua \/ Colorize

Spec == Init /\ [][Next]_vars

hen3 == Pinyin(<<"h", "e", "n">>, 3)
ma1 == Pinyin(<<"m", "a">>, 1)
haochar3 == TonedCharacter("U+597D", 3)

SandhiLeaves == {hen3, hao3, ma1, haochar3, junk}

\* a bare leaf, a Word of one leaf, or a Word of a TokenList of two leaves
SandhiItems ==
    SandhiLeaves
    \cup {Word(l) : l \in SandhiLeaves}
    \cup {Word(TokenList(<<a, b>>)) : a \in SandhiLeaves, b \in SandhiLeaves}

SandhiInputs ==
    SandhiItems \cup {TokenList(t) : t \in UNION {[1..k -> SandhiItems] : k \in 0..MaxItems}}

yi1 == Pinyin(<<"y", "i">>, 1)
bu4 == Pinyin(<<"b", "u">>, 4)
shi4 == Pinyin(<<"s", "h", "i">>, 4)
nian2 == Pinyin(<<"n", "i", "a", "n">>, 2)

LexicalLeaves == {yi1, bu4, shi4, ma1, nian2, hao3}

\* the lists the sandhi of yi and bu is about: bare or wrapped syllables
LexicalInputs ==
    {TokenList(t) : t \in UNION {[1..k -> LexicalLeaves \cup {Word(l) : l \in LexicalLeaves}]
                                 : k \in 2..(MaxItems + 1)}}

InitSandhi ==
    /\ tokens = <<>>
    /\ mediapacks = <<>>
    /\ tree \in SandhiInputs \cup LexicalInputs
    /\ NoFormatArguments
    /\ NoMeaningArguments
    /\ NoConfigObjects
    /\ pc = "start"
    /\ result = <<>>

\* tonesandhi(tree)
ToneSandhi ==
    /\ pc = "start"
    /\ result' = tonesandhi(tree)
    /\ pc' = "tonesandhi"
    /\ UNCHANGED <<tokens, mediapacks, tree, formatvars, meaningvars, configvars>>

NextSandhi == ToneSandhi

SpecSandhi == InitSandhi /\ [][NextSandhi]_vars

(***************************************************************************)
(* Config.formatmeanings on its own: a Config whose numbering and          *)
(* separator settings are drawn, and a list of meanings.                   *)
(***************************************************************************)
NumberingSchemes == {"circledChinese", "circledArabic", "arabicParens", "none"}

SeperatorNames == {"lines", "commas", "custom"}

CustomSeperators == {<<" ", "|", " ">>, <<>>}

MeaningTexts == {<<"a">>, <<"b", "c">>}

\* lists of up to MaxMeanings meanings
MeaningLists ==
    {[i \in 1..n |-> m] : n \in 0..MaxMeanings, m \in MeaningTexts}
        \cup {<<<<"a">>, <<"b">>>>, <<<<"b", "c">>, <<"a">>, <<"a">>>>}

InitFormat ==
    /\ settings \in [meaningnumbering : NumberingSchemes,
                     meaningseperator : SeperatorNames,
                     custommeaningseperator : CustomSeperators]
    /\ meanings \in MeaningLists
    /\ NoMeaningArguments
    /\ NoConfigObjects
    /\ tokens = <<>>
    /\ mediapacks = <<>>
    /\ tree = NoTree
    /\ pc = "start"
    /\ result = <<>>

\* config.formatmeanings(meanings)
FormatMeanings ==
    /\ pc = "start"
    /\ result' = formatmeanings(settings, meanings)
    /\ pc' = "formatmeanings"
    /\ UNCHANGED <<tokens, mediapacks, tree, formatvars, meaningvars, configvars>>

NextFormat == FormatMeanings

SpecFormat == InitFormat /\ [][NextFormat]_vars

(***************************************************************************)
(* MeaningFormatter on its own: a formatter and a raw definition.          *)
(***************************************************************************)
\* the markers a clause may start with, none included
ClausePrefixes == {<<>>, <<"C", "L", ":">>, <<"M", "W", ":">>}

ClauseBodies ==
    {<<"W", "a", "t", "t">>,
     <<"a", ",", "b">>,
     <<"a", "C", "L", ":", "b">>,
     <<"U+500B", "|", "U+4E2A", "[", "g", "e", "4", "]">>,
     <<"U+672C", "[", "b", "e", "n", "3", "]">>,
     <<"x", " ", "y">>,
     <<>>}

ClauseTexts == {prefix \o body : prefix \in ClausePrefixes, body \in ClauseBodies}

\* what stands before the first and after the last clause
Wrappings ==
    {<<<<>>, <<>>>>, <<<<"/">>, <<"/">>>>, <<<<" ", "/">>, <<"/", " ">>>>}

\* definitions of up to MaxClauses clauses
Definitions ==
    {w[1] \o join(<<"/">>, clauses) \o w[2] :
        w \in Wrappings,
        clauses \in UNION {[1..n -> ClauseTexts] : n \in 1..MaxClauses}}

Formatters ==
    [simplifiedcharindex : {0, 1}, prefersimptrad : {"simp", "trad", "both"}]

InitMeaning ==
    /\ formatter \in Formatters
    /\ raw_definition \in Definitions
    /\ NoFormatArguments
    /\ NoConfigObjects
    /\ tokens = <<>>
    /\ mediapacks = <<>>
    /\ tree = NoTree
    /\ pc = "start"
    /\ result = <<>>

\* formatter.parsedefinition(raw_definition)
ParseDefinition ==
    /\ pc = "start"
    /\ result' = parsedefinition(formatter, raw_definition)
    /\ pc' = "parsedefinition"
    /\ UNCHANGED <<tokens, mediapacks, tree, formatvars, meaningvars, configvars>>

\* formatter.formatmatch(match) for a match found in a clause of the definition
FormatMatch ==
    /\ pc = "start"
    /\ \E k \in 1..Len(clausesof(raw_definition)) :
           \E match \in matches(normalize(clausesof(raw_definition)[k])) :
               result' = [match |-> match, output |-> formatmatch(formatter, match)]
    /\ pc' = "formatmatch"
    /\ UNCHANGED <<tokens, mediapacks, tree, formatvars, meaningvars, configvars>>

NextMeaning == ParseDefinition \/ FormatMatch

SpecMeaning == InitMeaning /\ [][NextMeaning]_vars

(***************************************************************************)
(* Config on its own: the defaults, the caller's usersettings, and the     *)
(* instances made from them.                                               *)
(***************************************************************************)
\* the settings of defaultsettings the operations below read or write
DefaultObjects ==
    <<Dict([k \in {"dictlanguage", "tonedisplay", "tonecolors"} |->
               CASE k = "dictlanguage" -> Atom(<<"e", "n">>)
                 [] k = "tonedisplay" -> Atom(<<"t", "o", "n", "i", "f", "i", "e", "d">>)
                 [] k = "tonecolors" -> Ref(2)]),
      List(<<Atom(<<"#", "f", "f", "0", "0", "0", "0">>),
             Atom(<<"#", "f", "f", "a", "a", "0", "0">>),
             Atom(<<"#", "0", "0", "a", "a", "0", "0">>),
             Atom(<<"#", "0", "0", "0", "0", "f", "f">>),
             Atom(<<"#", "5", "4", "5", "4", "5", "4">>)>>)>>

\* the usersettings of the tests: the objects they add to the heap, the
\* dictionary standing first
UserObjects ==
    {<<Dict(<<>>)>>,
     <<Dict([k \in {"dictlanguage"} |-> Ref(4)]),
       List(<<Ref(5)>>),
       List(<<Atom(<<"d", "e", "e", "p", "!">>)>>)>>,
     <<Dict([k \in {"tonecolors"} |-> Ref(4)]),
       List(<<Atom(<<"1">>), Atom(<<"2">>)>>)>>,
     <<Dict([k \in {"dictlanguage"} |-> Atom(<<"f", "o", "o", "b", "a", "r">>)])>>}

\* the string the calls write
WrittenAtom == Atom(<<"h", "i">>)

\* the names the calls read and write
AttributeNames ==
    {"dictlanguage", "tonedisplay", "tonecolors", "kay", "settings",
     "shouldtonify", "formatmeanings"} \cup {ToneNames[k] : k \in 1..Len(ToneNames)}

\* the values the caller has at hand to write: a string, its usersettings
\* and the lists held in it
CallerValues ==
    {WrittenAtom}
        \cup (IF usersettings.kind = "ref"
              THEN {Ref(a) : a \in Reachable(heap, usersettings)}
              ELSE {})

IsDict(h, v) == v.kind = "ref" /\ h[v.addr].kind = "dict"

IsList(h, v) == v.kind = "ref" /\ h[v.addr].kind = "list"

InitConfig ==
    /\ \/ heap = DefaultObjects /\ usersettings = NoneValue
       \/ \E objects \in UserObjects :
              /\ heap = DefaultObjects \o objects
              /\ usersettings = Ref(Len(DefaultObjects) + 1)
    /\ configs = <<>>
    /\ calls = 0
    /\ NoFormatArguments
    /\ NoMeaningArguments
    /\ tokens = <<>>
    /\ mediapacks = <<>>
    /\ tree = NoTree
    /\ pc = "start"
    /\ result = <<>>

\* Config(usersettings) or Config(None)
NewConfig ==
    /\ Len(configs) < MaxConfigs
    /\ \E us \in {NoneValue, usersettings} :
           /\ heap' = init(heap, us).heap
           /\ configs' = Append(configs, init(heap, us).self)
           /\ result' = [config |-> Len(configs) + 1, name |-> "__init__",
                         value |-> us, raised |-> ""]
    /\ pc' = "Config"
    /\ UNCHANGED <<tokens, mediapacks, tree, formatvars, meaningvars, usersettings, calls>>

\* config.name = value; settings is given a dictionary, a tone color a
\* string, the other names a string or a list
SetAttr ==
    /\ calls < MaxCalls
    /\ \E c \in 1..Len(configs), name \in AttributeNames, value \in CallerValues :
           /\ (name = "settings") <=> IsDict(heap, value)
           /\ IsToneName(name) => value.kind = "atom"
           /\ heap' = setattr(heap, configs, c, name, value).heap
           /\ configs' = setattr(heap, configs, c, name, value).configs
           /\ result' = [config |-> c, name |-> name, value |-> value,
                         raised |-> setattr(heap, configs, c, name, value).raised]
    /\ calls' = calls + 1
    /\ pc' = "setattr"
    /\ UNCHANGED <<tokens, mediapacks, tree, formatvars, meaningvars, usersettings>>

\* config.name[i] = value, config.name[i][j] = value: an item of a list the
\* settings of the instance lead to is replaced in place
SetItem ==
    /\ calls < MaxCalls
    /\ \E c \in 1..Len(configs) :
           \E a \in Reachable(heap, configs[c]) :
               /\ heap[a].kind = "list"
               /\ \E i \in 1..Len(heap[a].items) :
                      heap' = [heap EXCEPT ![a].items[i] = WrittenAtom]
               /\ result' = [config |-> c, name |-> "__setitem__",
                             value |-> Ref(a), raised |-> ""]
    /\ calls' = calls + 1
    /\ pc' = "setitem"
    /\ UNCHANGED <<tokens, mediapacks, tree, formatvars, meaningvars, usersettings, configs>>

\* config.name
GetAttr ==
    /\ calls < MaxCalls
    /\ \E c \in 1..Len(configs), name \in AttributeNames :
           result' = [config |-> c, name |-> name,
                      value |-> readattribute(heap, configs[c], name).value,
                      raised |-> readattribute(heap, configs[c], name).raised]
    /\ calls' = calls + 1
    /\ pc' = "getattr"
    /\ UNCHANGED <<tokens, mediapacks, tree, formatvars, meaningvars, heap, usersettings, configs>>

NextConfig == NewConfig \/ SetAttr \/ SetItem \/ GetAttr

SpecConfig == InitConfig /\ [][NextConfig]_vars

(***************************************************************************)
(* Vocabulary of the properties.                                           *)
(***************************************************************************)
\* the leaves of a list of words, in reading order
RECURSIVE LeavesOf(_)
LeavesOf(words) ==
    IF Len(words) = 0 THEN <<>> ELSE Head(words) \o LeavesOf(Tail(words))

\* a Pinyin leaf that is not the erhua syllable
IsVoiced(token) == token.kind = "Pinyin" /\ token.word # <<"r">>

\* the leaves erhua trimming keeps: all but Pinyin r and the two er characters
IsKept(token) ==
    /\ ~(token.kind = "Pinyin" /\ token.word = <<"r">>)
    /\ ~(token.kind = "TonedCharacter" /\ token.word[1] \in {"U+513F", "U+5152"})

VoicedLeaves(words) == SelectSeq(LeavesOf(words), IsVoiced)

\* the missing-count of a pack for the tokens of the state
MissingCount(mediapack) ==
    audioreadingforpack(mediapack, audioextensions, tokens).mediamissingcount

SuppliedPacks == {mediapacks[i] : i \in 1..Len(mediapacks)}

AllPacksEmpty == \A i \in 1..Len(mediapacks) : mediapacks[i].media = {}

ogg(base) == base \o <<".", "o", "g", "g">>

\* the file a pack offers for a base name, by presence in the pack alone
FileFor(mediapack, base) ==
    IF mp3(base) \in mediapack.media THEN mp3(base)
    ELSE IF ogg(base) \in mediapack.media THEN ogg(base)
    ELSE <<>>

\* the first of the candidates the pack has a file for, else nothing
RECURSIVE FirstFile(_, _)
FirstFile(mediapack, candidates) ==
    IF Len(candidates) = 0 THEN <<>>
    ELSE IF FileFor(mediapack, Head(candidates)) # <<>>
         THEN FileFor(mediapack, Head(candidates))
         ELSE FirstFile(mediapack, Tail(candidates))

IsFile(f) == f # <<>>

(***************************************************************************)
(* Properties.                                                             *)
(***************************************************************************)
\* C1: whenever at least one media pack is supplied, audioreading returns one
\* of the supplied packs, and that pack's missing-count is the minimum of the
\* missing-counts of all supplied packs.
C1_ReturnsBestPack ==
    (pc = "audioreading" /\ Len(mediapacks) > 0) =>
        /\ result.pack \in SuppliedPacks
        /\ \A p \in SuppliedPacks : MissingCount(result.pack) <= MissingCount(p)

\* C6: a tone-5 syllable is resolved by trying the spelling with digit 5, then
\* the bare spelling, then the spelling with digit 4; the first the pack has a
\* file for gives the file, and the syllable is missing only if none has one.
C6_FifthToneOrder ==
    (pc = "audioreadingforpack"
        /\ \A i \in 1..Len(VoicedLeaves(tokens)) : VoicedLeaves(tokens)[i].tone = 5) =>
        \A k \in 1..Len(mediapacks) :
            LET voiced == VoicedLeaves(tokens)
                files == [i \in 1..Len(voiced) |->
                            FirstFile(mediapacks[k],
                                      <<voiced[i].word \o <<"5">>,
                                        voiced[i].word,
                                        voiced[i].word \o <<"4">>>>)]
            IN /\ result[k].output = SelectSeq(files, IsFile)
               /\ result[k].mediamissingcount =
                      Cardinality({i \in 1..Len(files) : files[i] = <<>>})

\* de5 with a pack that has de.mp3 and de4.mp3 but not de5.mp3 gives de.mp3
C6_Witness ==
    /\ pc = "audioreadingforpack"
    /\ tokens = <<<<de5>>>>
    /\ mediapacks[1].media = {mp3(<<"d", "e">>), mp3(<<"d", "e", "4">>)}
    /\ result[1] = [output |-> <<mp3(<<"d", "e">>)>>, mediamissingcount |-> 0]

\* C7: a syllable spelled with u:, of any tone, whose pack has no file for a
\* plain-spelled candidate but has one for the spelling with v and the tone
\* digit, resolves to that file and is not counted missing.
C7_UmlautAnyTone ==
    (pc = "audioreadingforpack" /\ Len(tokens) = 1 /\ Len(tokens[1]) = 1
        /\ tokens[1][1].kind = "Pinyin" /\ ContainsUmlaut(tokens[1][1].word)) =>
        \A k \in 1..Len(mediapacks) :
            LET p == tokens[1][1]
                plain == <<p.word \o <<str(p.tone)>>>> \o
                         (IF p.tone = 5 THEN <<p.word, p.word \o <<"4">>>> ELSE <<>>)
                vfile == FileFor(mediapacks[k],
                                 ReplaceUmlaut(p.word) \o <<str(p.tone)>>)
            IN (FirstFile(mediapacks[k], plain) = <<>> /\ vfile # <<>>) =>
                   result[k] = [output |-> <<vfile>>, mediamissingcount |-> 0]

\* C8: with a pack returned, the incomplete flag is true exactly when that
\* pack's missing-count for the tokens is not zero; tokens without a Pinyin
\* leaf and at least one pack give (pack, [], False).
C8_IncompleteFlag ==
    pc = "audioreading" =>
        /\ result.pack # NoPack =>
               (result.incomplete <=> MissingCount(result.pack) # 0)
        /\ (Len(mediapacks) > 0
              /\ \A i \in 1..Len(LeavesOf(tokens)) : LeavesOf(tokens)[i].kind # "Pinyin") =>
               /\ result.pack \in SuppliedPacks
               /\ result.output = <<>>
               /\ result.incomplete = FALSE

\* a partial reading: a pack is returned with a file and the flag set
C8_Witness ==
    /\ pc = "audioreading"
    /\ result.pack # NoPack
    /\ result.incomplete
    /\ Len(result.output) > 0

\* C9 as claimed: with no pack supplied, and also with every supplied pack
\* empty, audioreading returns (no pack, [], True).
C9_EmptyPacksGiveNoPack ==
    (pc = "audioreading" /\ AllPacksEmpty) =>
        result = [pack |-> NoPack, output |-> <<>>, incomplete |-> TRUE]

\* C9 amended: with no pack supplied audioreading returns (no pack, [], True);
\* with every supplied pack empty the file list is empty, the flag is true
\* exactly when the tokens hold a Pinyin leaf other than r, and a supplied pack
\* is returned unless there are more than len(tokens) + 1 such leaves.
C9_EmptyPacksAmended ==
    pc = "audioreading" =>
        /\ Len(mediapacks) = 0 =>
               result = [pack |-> NoPack, output |-> <<>>, incomplete |-> TRUE]
        /\ (Len(mediapacks) > 0 /\ AllPacksEmpty) =>
               /\ result.output = <<>>
               /\ result.incomplete <=> Len(VoicedLeaves(tokens)) > 0
               /\ IF Len(VoicedLeaves(tokens)) > Len(tokens) + 1
                  THEN result.pack = NoPack
                  ELSE result.pack \in SuppliedPacks

\* an empty pack is returned, with the flag set, for a single syllable
C9_Witness ==
    /\ pc = "audioreading"
    /\ Len(mediapacks) > 0
    /\ AllPacksEmpty
    /\ Len(VoicedLeaves(tokens)) = 1
    /\ result.pack \in SuppliedPacks
    /\ result.incomplete

\* C10: trimerhua gives, for each word in order, the leaves of that word that
\* are neither Pinyin r (of any tone) nor one of the two er characters, in
\* their order and unchanged.
C10_TrimErhua ==
    pc = "trimerhua" =>
        /\ Len(result) = Len(tokens)
        /\ \A i \in 1..Len(tokens) : result[i] = SelectSeq(tokens[i], IsKept)

\* a word of yi1 and the er character is trimmed to yi1
C10_Witness ==
    /\ pc = "trimerhua"
    /\ tokens = <<<<Pinyin(<<"y", "i">>, 1), TonedCharacter("U+513F", 5)>>>>
    /\ result = <<<<Pinyin(<<"y", "i">>, 1)>>>>

(***************************************************************************)
(* Properties of tonesandhi.                                               *)
(***************************************************************************)
\* the leaves of a token tree, in reading order
RECURSIVE TreeLeaves(_)
RECURSIVE TreeLeavesAll(_)
TreeLeaves(token) ==
    CASE token.kind = "Word" -> TreeLeaves(token.token)
      [] token.kind = "TokenList" -> TreeLeavesAll(token.tokens)
      [] OTHER -> <<token>>

TreeLeavesAll(toks) ==
    IF Len(toks) = 0 THEN <<>>
    ELSE TreeLeaves(Head(toks)) \o TreeLeavesAll(Tail(toks))

\* a toned leaf with another tone
WithTone(toned, tone) == [toned EXCEPT !.tone = tone]

\* a word of exactly one syllable, of tone 3: a bare leaf or a Word of a leaf
IsMonoThird(item) ==
    \/ IsToned(item) /\ item.tone = 3
    \/ item.kind = "Word" /\ IsToned(item.token) /\ item.token.tone = 3

\* a Word of a TokenList of two or more syllables
IsPolyWord(item) ==
    /\ item.kind = "Word"
    /\ item.token.kind = "TokenList"
    /\ Len(item.token.tokens) >= 2
    /\ \A i \in 1..Len(item.token.tokens) : IsToned(item.token.tokens[i])

\* the texts of the leaves with tones as given by a function of the position
FlatWithTones(leaves, tone(_)) ==
    flattenall([i \in 1..Len(leaves) |->
                   IF IsToned(leaves[i]) /\ leaves[i].tone = 3
                   THEN WithTone(leaves[i], tone(i))
                   ELSE leaves[i]])

\* C2: for every input tree tonesandhi gives a tree whose leaves are those of
\* the input, position by position, except that a leaf of tone 3 may have
\* become the same leaf with tone 2.
C2_OnlyThirdToneRewritten ==
    pc = "tonesandhi" =>
        /\ result # TypeError
        /\ Len(TreeLeaves(result)) = Len(TreeLeaves(tree))
        /\ \A i \in 1..Len(TreeLeaves(tree)) :
               LET old == TreeLeaves(tree)[i]
                   new == TreeLeaves(result)[i]
               IN \/ new = old
                  \/ IsToned(old) /\ old.tone = 3 /\ new = WithTone(old, 2)

\* C3: a TokenList of two monosyllabic units of tone 3, both bare or both in a
\* Word of their own, flattens to the first with tone 2 and the second with
\* tone 3.
C3_MonoBeforeMono ==
    (pc = "tonesandhi" /\ tree.kind = "TokenList" /\ Len(tree.tokens) = 2
        /\ IsMonoThird(tree.tokens[1]) /\ IsMonoThird(tree.tokens[2])
        /\ (tree.tokens[1].kind = "Word" <=> tree.tokens[2].kind = "Word")) =>
        /\ result # TypeError
        /\ flatten(result) =
               FlatWithTones(TreeLeaves(tree), LAMBDA i : IF i = 1 THEN 2 ELSE 3)

\* C4: a polysyllabic Word followed by a monosyllabic Word of tone 3 flattens
\* to the polysyllabic word with every tone 3 turned to 2, its last syllable
\* included, and the monosyllabic word with tone 3.
C4_MultiBeforeMono ==
    (pc = "tonesandhi" /\ tree.kind = "TokenList" /\ Len(tree.tokens) = 2
        /\ IsPolyWord(tree.tokens[1])
        /\ tree.tokens[2].kind = "Word" /\ IsMonoThird(tree.tokens[2])) =>
        /\ result # TypeError
        /\ flatten(result) =
               FlatWithTones(TreeLeaves(tree),
                             LAMBDA i : IF i < Len(TreeLeaves(tree)) THEN 2 ELSE 3)

\* C5: a monosyllabic Word of tone 3 followed by a polysyllabic Word that ends
\* the list flattens to the monosyllabic word with tone 3, the polysyllabic
\* word with tone 2 in place of 3 except on its last syllable.
C5_MonoBeforeMulti ==
    (pc = "tonesandhi" /\ tree.kind = "TokenList" /\ Len(tree.tokens) = 2
        /\ tree.tokens[1].kind = "Word" /\ IsMonoThird(tree.tokens[1])
        /\ IsPolyWord(tree.tokens[2])) =>
        /\ result # TypeError
        /\ flatten(result) =
               FlatWithTones(TreeLeaves(tree),
                             LAMBDA i : IF 1 < i /\ i < Len(TreeLeaves(tree))
                                        THEN 2 ELSE 3)

(***************************************************************************)
(* Further properties of the audio readings.                               *)
(***************************************************************************)
\* the supplied packs whose missing-count is the least of all supplied packs
TiedPacks ==
    {p \in SuppliedPacks : \A q \in SuppliedPacks : MissingCount(p) <= MissingCount(q)}

\* C15: when several supplied packs tie on the minimal missing-count, each of
\* them is a possible result of audioreading, and a pack that audioreading
\* returns is one of them.
C15_AnyTiedPack ==
    (pc = "audioreading" /\ Cardinality(TiedPacks) > 1) =>
        /\ \A p \in TiedPacks :
               \E r \in audioreading(mediapacks, audioextensions, tokens) : r.pack = p
        /\ result.pack \in TiedPacks

\* C16: the file list audioreading returns is the list the returned pack alone
\* resolves for the tokens, and every file of it is a file of that pack.
C16_NoMixing ==
    pc = "audioreading" =>
        IF result.pack = NoPack
        THEN result.output = <<>>
        ELSE /\ result.pack \in SuppliedPacks
             /\ result.output =
                    audioreadingforpack(result.pack, audioextensions, tokens).output
             /\ \A i \in 1..Len(result.output) : result.output[i] \in result.pack.media

\* the pack returned misses hao3, which only the other pack has
C16_Witness ==
    /\ pc = "audioreading"
    /\ Len(mediapacks) = 2
    /\ tokens = <<<<ni3, hao3>>, <<ni3>>>>
    /\ mediapacks[1].media = {mp3(<<"n", "i", "3">>)}
    /\ mediapacks[2].media = {mp3(<<"h", "a", "o", "3">>)}
    /\ result.pack = mediapacks[1]
    /\ result.output = <<mp3(<<"n", "i", "3">>), mp3(<<"n", "i", "3">>)>>

\* the outputs of a sequence of visitor states, concatenated
RECURSIVE JoinOutputs(_)
JoinOutputs(rs) ==
    IF Len(rs) = 0 THEN <<>> ELSE Head(rs).output \o JoinOutputs(Tail(rs))

RECURSIVE SumMissing(_)
SumMissing(rs) ==
    IF Len(rs) = 0 THEN 0 ELSE Head(rs).mediamissingcount + SumMissing(Tail(rs))

\* C19: for one pack, every Pinyin leaf other than r gives either one file or
\* one missing, in reading order, so len(output) + mediamissingcount is the
\* number of such leaves; Text and TonedCharacter leaves give nothing; and
\* trimming erhua twice gives what trimming once gives.
C19_Accounting ==
    /\ pc = "audioreadingforpack" =>
           \A k \in 1..Len(mediapacks) :
               LET voiced == VoicedLeaves(tokens)
                   each == [i \in 1..Len(voiced) |->
                               audioreadingforpack(mediapacks[k], audioextensions,
                                                   <<<<voiced[i]>>>>)]
               IN /\ \A i \in 1..Len(each) :
                         Len(each[i].output) + each[i].mediamissingcount = 1
                  /\ result[k].output = JoinOutputs(each)
                  /\ result[k].mediamissingcount = SumMissing(each)
                  /\ Len(result[k].output) + result[k].mediamissingcount = Len(voiced)
    /\ pc = "trimerhua" => trimerhua(result) = result

\* of a syllable, an erhua r and a second syllable, one is found and one missing
C19_Witness ==
    /\ pc = "audioreadingforpack"
    /\ tokens = <<<<ni3, r5>>, <<hao3>>>>
    /\ Len(mediapacks) = 1
    /\ result[1] = [output |-> <<mp3(<<"h", "a", "o", "3">>)>>, mediamissingcount |-> 1]

(***************************************************************************)
(* The sandhi of yi and bu.                                                *)
(***************************************************************************)
\* the syllable of a bare leaf or of a Word of one leaf
Syllable(item) == IF item.kind = "Word" THEN item.token ELSE item

IsMonoItem(item) == IsToned(Syllable(item))

\* C17: yi1 before a fourth tone becomes yi2 and before a first, second or
\* third tone yi4; bu4 before a fourth tone becomes bu2; a monosyllabic word
\* yi1 or bu4 between two words is rendered without tone.
C17_YiBu ==
    (pc = "tonesandhi" /\ tree.kind = "TokenList"
        /\ Len(tree.tokens) \in {2, 3}
        /\ \A i \in 1..Len(tree.tokens) : IsMonoItem(tree.tokens[i])) =>
        LET first == Syllable(tree.tokens[1])
            second == Syllable(tree.tokens[2])
        IN /\ (Len(tree.tokens) = 2 /\ first = yi1 /\ second.tone = 4) =>
                  /\ result # TypeError
                  /\ flatten(result) = <<"y", "i", "2">> \o LeafText(second)
           /\ (Len(tree.tokens) = 2 /\ first = yi1 /\ second.tone \in {1, 2, 3}) =>
                  /\ result # TypeError
                  /\ flatten(result) = <<"y", "i", "4">> \o LeafText(second)
           /\ (Len(tree.tokens) = 2 /\ first = bu4 /\ second.tone = 4) =>
                  /\ result # TypeError
                  /\ flatten(result) = <<"b", "u", "2">> \o LeafText(second)
           /\ (Len(tree.tokens) = 3 /\ second \in {yi1, bu4}
                 /\ \A i \in 1..3 : tree.tokens[i].kind = "Word"
                 /\ first.tone # 3 /\ Syllable(tree.tokens[3]).tone # 3) =>
                  /\ result # TypeError
                  /\ flatten(result) =
                         LeafText(first) \o second.word \o LeafText(Syllable(tree.tokens[3]))

(***************************************************************************)
(* Properties of colorize.                                                 *)
(***************************************************************************)
\* a Text token that opens or closes a span
IsSpanToken(token) ==
    /\ token.kind = "Text"
    /\ \/ token.word = SpanClose
       \/ /\ Len(token.word) > Len(SpanOpen)
          /\ SubSeq(token.word, 1, Len(SpanOpen)) = SpanOpen

IsNoSpanToken(token) == ~IsSpanToken(token)

\* C11: with the five colors, colorize turns every Pinyin or TonedCharacter
\* leaf of tone t into the span opening with color t of the list, the leaf
\* itself and the span closing, keeps every Text leaf as it is, keeps erhua
\* leaves, and the output without the span tokens is the input.
C11_Colorize ==
    (pc = "colorize" /\ Len(colorlist) = 5) =>
        /\ Len(result) = Len(tokens)
        /\ \A w \in 1..Len(tokens) :
               LET out == result[w]
                   toned == {i \in 1..Len(tokens[w]) : IsToned(tokens[w][i])}
               IN /\ SelectSeq(out, IsNoSpanToken) = tokens[w]
                  /\ Len(out) = Len(tokens[w]) + 2 * Cardinality(toned)
                  /\ \A j \in 1..Len(out) :
                         IsToned(out[j]) =>
                             /\ out[j].tone \in 1..5
                             /\ j > 1 /\ j < Len(out)
                             /\ out[j - 1] = Text(SpanOpen \o colorlist[out[j].tone]
                                                  \o <<"\"", ">">>)
                             /\ out[j + 1] = Text(SpanClose)

\* a word of ma3 and erhua r: both are wrapped, r in the color of tone 5
C11_Witness ==
    /\ pc = "colorize"
    /\ tokens = <<<<Pinyin(<<"m", "a">>, 3), r5>>>>
    /\ Len(result[1]) = 6
    /\ result[1][5] = r5
    /\ result[1][4] = Text(SpanOpen \o colorlist[5] \o <<"\"", ">">>)

(***************************************************************************)
(* Config.formatmeanings.                                                  *)
(***************************************************************************)
\* the numbering symbols of a scheme, in order
SymbolsOf(scheme) == meaningnumberingstringss(scheme).strings

\* the prefix expected for meaning n, counted from 0
ExpectedNumber(scheme, n) ==
    IF n < Len(SymbolsOf(scheme)) THEN SymbolsOf(scheme)[n + 1]
    ELSE <<"(">> \o decimal(n + 1) \o <<")">>

\* the separator expected for the settings
ExpectedSeperator ==
    CASE settings.meaningseperator = "lines" -> <<"<", "b", "r", " ", "/", ">">>
      [] settings.meaningseperator = "commas" -> <<",", " ">>
      [] OTHER -> settings.custommeaningseperator

\* the entries expected for the meanings
ExpectedEntries ==
    [i \in 1..Len(meanings) |->
        IF Len(meanings) > 1 /\ settings.meaningnumbering # "none"
        THEN ExpectedNumber(settings.meaningnumbering, i - 1) \o <<" ">> \o meanings[i]
        ELSE meanings[i]]

\* the strings laid end to end with the separator between neighbours
RECURSIVE Interleave(_, _, _)
Interleave(strings, separator, i) ==
    IF i > Len(strings) THEN <<>>
    ELSE (IF i > 1 THEN separator ELSE <<>>) \o strings[i]
             \o Interleave(strings, separator, i + 1)

\* C14: with more than one meaning and a scheme other than none, meaning n
\* (from 0) is prefixed with the n-th symbol of the scheme and a space, and
\* with "(n+1)" once n reaches the number of symbols; a single meaning and any
\* list under scheme none are not prefixed; the entries are joined with
\* "<br />" for lines, ", " for commas and the custom separator otherwise.
C14_FormatMeanings ==
    pc = "formatmeanings" =>
        /\ result = Interleave(ExpectedEntries, ExpectedSeperator, 1)
        /\ Len(SymbolsOf("arabicParens")) = 0
        /\ Len(SymbolsOf("circledChinese")) = 20

\* 21 meanings under circledChinese: the last one is numbered "(21)"
C14_Witness ==
    /\ pc = "formatmeanings"
    /\ settings.meaningnumbering = "circledChinese"
    /\ settings.meaningseperator = "custom"
    /\ Len(meanings) = 21
    /\ meanings[21] = <<"a">>
    /\ Len(result) >= 6
    /\ SubSeq(result, Len(result) - 5, Len(result)) = <<"(", "2", "1", ")", " ", "a">>

(***************************************************************************)
(* MeaningFormatter.                                                       *)
(***************************************************************************)
\* alternative i, 0 or 1, of an embedded pair
Alternative(match, i) == match.groups[i + 1].string

\* the formatter with the other index and the other preference
FlippedFormatter ==
    [simplifiedcharindex |-> 1 - formatter.simplifiedcharindex,
     prefersimptrad |-> IF formatter.prefersimptrad = "simp" THEN "trad" ELSE "simp"]

\* the character form the formatter is to emit for the match
ExpectedCharacter(match) ==
    IF ~match.groups[3].isnone THEN match.groups[3].string
    ELSE IF formatter.prefersimptrad = "simp"
    THEN Alternative(match, formatter.simplifiedcharindex)
    ELSE Alternative(match, 1 - formatter.simplifiedcharindex)

\* C12: for a pair a|b and simplified index i, preference simp emits
\* alternative i and any other preference alternative 1-i, so the formatter
\* with the other index and the other preference gives the same output for
\* every match and every definition; a single form is emitted as it is; with
\* a bracketed pronunciation the output is the character, " - " and the
\* pronunciation as a Pinyin token, and the character alone without one.
C12_FormatMatch ==
    /\ pc = "formatmatch" =>
           /\ result.output[1] = Text(ExpectedCharacter(result.match))
           /\ IF result.match.groups[4].isnone
              THEN Len(result.output) = 1
              ELSE /\ Len(result.output) = 3
                   /\ result.output[2] = Text(<<" ", "-", " ">>)
                   /\ result.output[3].kind = "Pinyin"
                   /\ numericformat(result.output[3], FALSE)
                          = result.match.groups[4].string
           /\ result.output = formatmatch(FlippedFormatter, result.match)
    /\ pc = "parsedefinition" =>
           result = parsedefinition(FlippedFormatter, raw_definition)

\* the pair of the tests with its pronunciation, simplified index 1, simp
C12_Witness ==
    /\ pc = "formatmatch"
    /\ formatter = [simplifiedcharindex |-> 1, prefersimptrad |-> "simp"]
    /\ ~result.match.groups[1].isnone
    /\ result.match.groups[1].string # result.match.groups[2].string
    /\ result.output = <<Text(<<"U+4E2A">>), Text(<<" ", "-", " ">>), Pinyin(<<"g", "e">>, 4)>>

\* the clauses of the definition at hand
Clauses == clausesof(raw_definition)

\* the clause, trimmed, starts with one of the two markers
HasMarker(clause) ==
    \/ startswith(strip(clause), <<"C", "L", ":">>)
    \/ startswith(strip(clause), <<"M", "W", ":">>)

HasNoMarker(clause) == ~HasMarker(clause)

MeasureClauses == SelectSeq(Clauses, HasMarker)

MeaningClauses == SelectSeq(Clauses, HasNoMarker)

\* C13: the input, trimmed of whitespace and of leading and trailing
\* slashes, is split on "/"; every clause yields one entry, in the measure
\* words iff it starts with the marker and in the meanings otherwise, so the
\* two lengths add up to the number of clauses and each list keeps the order
\* of its clauses; without a marked clause there are no measure words.
C13_ParseDefinition ==
    pc = "parsedefinition" =>
        /\ Len(result.meanings) + Len(result.measurewords) = Len(Clauses)
        /\ Len(result.meanings) = Len(MeaningClauses)
        /\ Len(result.measurewords) = Len(MeasureClauses)
        /\ \A k \in 1..Len(MeaningClauses) :
               result.meanings[k] = clausetokens(formatter, normalize(MeaningClauses[k]))
        /\ \A k \in 1..Len(MeasureClauses) :
               result.measurewords[k] = clausetokens(formatter, normalize(MeasureClauses[k]))
        /\ (\A k \in 1..Len(Clauses) : HasNoMarker(Clauses[k])) => result.measurewords = <<>>

\* two clauses: a measure word first, then a meaning that holds "CL:" inside
C13_Witness ==
    /\ pc = "parsedefinition"
    /\ Len(Clauses) = 2
    /\ HasMarker(Clauses[1])
    /\ Clauses[2] = <<"a", "C", "L", ":", "b">>
    /\ Len(result.meanings) = 1
    /\ Len(result.measurewords) = 1

\* the clause holds an embedded character pair or a pronunciation
IsEmbedded(clause) == \E i \in 1..Len(clause) : clause[i] \in {"|", "["}

\* the text of a marked clause after its marker, trimmed
AfterMarker(clause) == strip(Drop(strip(clause), 4))

\* the text with each "," rewritten to ", "
CommaSpace(text) == replace(text, <<",">>, <<",", " ">>)

\* C20: of a measure-word clause only the leading marker and the whitespace
\* around are removed: the entry holds all the text after the marker, each
\* "," rewritten to ", ", whatever the text begins with; a "CL:" that is not
\* the prefix of its clause does not make a measure word.
C20_MarkerOnly ==
    pc = "parsedefinition" =>
        /\ Len(result.measurewords) = Len(MeasureClauses)
        /\ \A k \in 1..Len(MeasureClauses) :
               ~IsEmbedded(MeasureClauses[k]) =>
                   flattenall(result.measurewords[k])
                       = CommaSpace(AfterMarker(MeasureClauses[k]))

(***************************************************************************)
(* Config.                                                                 *)
(***************************************************************************)
\* what a value holds, the objects it leads to laid out in place
RECURSIVE Deep(_, _)
Deep(h, v) ==
    IF v.kind # "ref" THEN [kind |-> v.kind, atom |-> v.atom, addr |-> v.addr, items |-> <<>>]
    ELSE [kind |-> h[v.addr].kind, atom |-> <<>>, addr |-> 0,
          items |-> [k \in DOMAIN h[v.addr].items |-> Deep(h, h[v.addr].items[k])]]

\* the defaults overridden by the keys of us
OverriddenDefaults(h, us) ==
    [kind |-> "dict", atom |-> <<>>, addr |-> 0,
     items |-> [k \in DOMAIN h[defaultsettings.addr].items \cup DOMAIN itemsor(h, us) |->
                   IF k \in DOMAIN itemsor(h, us)
                   THEN Deep(h, itemsor(h, us)[k])
                   ELSE Deep(h, h[defaultsettings.addr].items[k])]]

\* instance c shares no object with usersettings, defaultsettings or
\* another instance
Separate(h, cfgs, c) ==
    Reachable(h, cfgs[c])
        \cap (Reachable(h, usersettings) \cup Reachable(h, defaultsettings)
                 \cup UNION {Reachable(h, cfgs[d]) : d \in (1..Len(cfgs)) \ {c}})
      = {}

\* the step leaves usersettings and defaultsettings as they were
CallerUnchanged ==
    /\ Deep(heap', usersettings') = Deep(heap, usersettings)
    /\ Deep(heap', defaultsettings) = Deep(heap, defaultsettings)

\* the step shows through no instance but the one it was made on
OthersUnchanged ==
    \A d \in 1..Len(configs) :
        d # result'.config => Deep(heap', configs'[d]) = Deep(heap, configs[d])

\* the step made a Config that holds the defaults overridden by the user's keys
StartsFromDefaults ==
    Deep(heap', configs'[result'.config]) = OverriddenDefaults(heap, result'.value)

\* reading the name just written gives the value written
ReadsWritten ==
    readattribute(heap', configs'[result'.config], result'.name)
        = [raised |-> "", value |-> result'.value]

PropertyNames == ReadOnlyProperties \cup {ToneNames[k] : k \in 1..Len(ToneNames)}

\* the name read is a key of the settings of the instance
IsSetting == result'.name \in DOMAIN heap[configs[result'.config].addr].items

\* C18: Config(usersettings) starts from the defaults overridden by the
\* user's keys; afterwards every attribute write, tone color setter call and
\* in-place change of a nested setting value leaves usersettings and
\* defaultsettings unchanged and shows through no other instance; reading an
\* attribute after writing it gives the written value; reading a name that
\* is neither a setting nor a property raises AttributeError.
C18_ConfigIsolation ==
    [][/\ pc' = "Config" => StartsFromDefaults
       /\ pc' \in {"setattr", "setitem"} => CallerUnchanged /\ OthersUnchanged
       /\ (pc' = "setattr" /\ result'.raised = "") => ReadsWritten
       /\ (pc' = "getattr" /\ ~IsSetting /\ result'.name \notin PropertyNames)
              => result'.raised = "AttributeError"]_vars

\* C18 as it holds: a new Config holds the defaults overridden by the user's
\* keys and shares no object with usersettings, defaultsettings or another
\* instance; while an instance shares none, writes, setter calls and in-place
\* changes on it leave usersettings, defaultsettings and the other instances
\* as they were; a write that returns is read back unless the name is that
\* of a method; reading a name that is no setting, no property, no method and
\* not "settings" raises AttributeError.
C18_IsolationWhileSeparate ==
    [][/\ pc' = "Config" =>
              StartsFromDefaults /\ Separate(heap', configs', result'.config)
       /\ (pc' \in {"setattr", "setitem"} /\ Separate(heap, configs, result'.config))
              => CallerUnchanged /\ OthersUnchanged
       /\ (pc' = "setattr" /\ result'.raised = "" /\ result'.name \notin MethodNames)
              => ReadsWritten
       /\ (pc' = "getattr" /\ ~IsSetting
              /\ result'.name \notin PropertyNames \cup MethodNames \cup {"settings"})
              => result'.raised = "AttributeError"]_vars

\* two instances made from a usersettings with a nested list; an item of the
\* copy the first one holds was replaced, and only that copy shows it
C18_Witness ==
    /\ pc = "setitem"
    /\ Len(configs) = 2
    /\ result.config = 1
    /\ Separate(heap, configs, 1)
    /\ usersettings.kind = "ref"
    /\ "dictlanguage" \in DOMAIN heap[usersettings.addr].items
    /\ IsList(heap, heap[usersettings.addr].items["dictlanguage"])
    /\ Deep(heap, configs[1]).items["dictlanguage"]
           # Deep(heap, usersettings).items["dictlanguage"]
    /\ Deep(heap, configs[2]).items["dictlanguage"]
           = Deep(heap, usersettings).items["dictlanguage"]

====
